---- MODULE Spec2Model ----
(***************************************************************************)
(* Model of the React -> custom element adapter                            *)
(* (src/src/wc/defineReactCustomElement.tsx) and of its registrations      *)
(* (src/src/entry.tsx).                                                    *)
(*                                                                         *)
(* Strings that the code inspects (tag names, raw attribute values) are    *)
(* sequences of one-character strings, so that includes(), Number(),       *)
(* toLowerCase() and JSON.parse() are computed character by character.     *)
(***************************************************************************)
EXTENDS Integers, Sequences, FiniteSets, TLC

(***************************************************************************)
(* JavaScript values.  Every value is a record of the same shape:          *)
(*   kind : "undefined" | "null" | "boolean" | "number" | "string"         *)
(*          | "object" | "function"                                        *)
(*   n, e : a finite number is n * 10^e with n not divisible by 10         *)
(*          (0 is n = 0, e = 0); a boolean is n = 1 / n = 0; the two       *)
(*          infinities are n = 1 / n = -1 with s = <<"I">>                 *)
(*   s    : the characters of a string, the canonical text of a parsed     *)
(*          JSON array/object, or the DOM event name a bridge callback     *)
(*          closes over.                                                   *)
(***************************************************************************)
Undefined == [kind |-> "undefined", n |-> 0, e |-> 0, s |-> <<>>]

Null == [kind |-> "null", n |-> 0, e |-> 0, s |-> <<>>]

Bool(b) == [kind |-> "boolean", n |-> IF b THEN 1 ELSE 0, e |-> 0, s |-> <<>>]

Str(s) == [kind |-> "string", n |-> 0, e |-> 0, s |-> s]

Obj(text) == [kind |-> "object", n |-> 0, e |-> 0, s |-> text]

Infinity(sign) == [kind |-> "number", n |-> sign, e |-> 0, s |-> <<"I">>]

\* An exception leaving a call in place of a value
Thrown == [kind |-> "thrown", n |-> 0, e |-> 0, s |-> <<>>]

RECURSIVE Pow10(_)
Pow10(k) == IF k <= 0 THEN 1 ELSE 10 * Pow10(k - 1)

RECURSIVE NumDigits(_)
NumDigits(m) == IF m < 10 THEN 1 ELSE 1 + NumDigits(m \div 10)

\* m * 10^e with the trailing zeros of m moved into the exponent.
RECURSIVE Normal(_, _)
Normal(m, e) ==
    IF m = 0 THEN <<0, 0>>
    ELSE IF m % 10 = 0 THEN Normal(m \div 10, e + 1)
    ELSE <<m, e>>

\* The double nearest to sign * m * 10^e (m >= 0): beyond the largest double
\* (1.7976931348623157e308) it is an infinity, below the smallest (5e-324) it is 0.
MaxDoubleLead == 179769313

MaxDoubleOrder == 308

MinDoubleOrder == -324

Finite(sign, m, e) == [kind |-> "number", n |-> sign * m, e |-> e, s |-> <<>>]

\* nm = <<m, e>> normalised, d the number of digits of m
Rounded(sign, nm, d) ==
    IF nm[1] = 0 \/ nm[2] + d - 1 < MinDoubleOrder THEN Finite(1, 0, 0)
    ELSE IF nm[2] + d - 1 > MaxDoubleOrder THEN Infinity(sign)
    ELSE IF /\ nm[2] + d - 1 = MaxDoubleOrder
            /\ (IF d <= 9 THEN nm[1] * Pow10(9 - d) ELSE nm[1] \div Pow10(d - 9))
                   > MaxDoubleLead
      THEN Infinity(sign)
    ELSE Finite(sign, nm[1], nm[2])

Normalised(sign, nm) == Rounded(sign, nm, NumDigits(nm[1]))

Num(sign, m, e) == Normalised(sign, Normal(m, e))

IntNum(i) == IF i < 0 THEN Num(-1, -i, 0) ELSE Num(1, i, 0)

NaN == [kind |-> "number", n |-> 0, e |-> 0, s |-> <<"N">>]

\* Number.isFinite
IsFinite(v) == v.kind = "number" /\ v.s = <<>>

(***************************************************************************)
(* Characters                                                              *)
(***************************************************************************)
Digits == {"0", "1", "2", "3", "4", "5", "6", "7", "8", "9"}

HexDigits == Digits \cup {"a", "b", "c", "d", "e", "f", "A", "B", "C", "D", "E", "F"}

DigitVal(c) ==
    CASE c = "0" -> 0 [] c = "1" -> 1 [] c = "2" -> 2 [] c = "3" -> 3
      [] c = "4" -> 4 [] c = "5" -> 5 [] c = "6" -> 6 [] c = "7" -> 7
      [] c = "8" -> 8 [] c = "9" -> 9
      [] c \in {"a", "A"} -> 10 [] c \in {"b", "B"} -> 11
      [] c \in {"c", "C"} -> 12 [] c \in {"d", "D"} -> 13
      [] c \in {"e", "E"} -> 14 [] c \in {"f", "F"} -> 15

WhiteSpace == {" "}

\* String.prototype.toLowerCase, one character
LowerChar(c) ==
    CASE c = "A" -> "a" [] c = "B" -> "b" [] c = "C" -> "c" [] c = "D" -> "d"
      [] c = "E" -> "e" [] c = "F" -> "f" [] c = "G" -> "g" [] c = "H" -> "h"
      [] c = "I" -> "i" [] c = "J" -> "j" [] c = "K" -> "k" [] c = "L" -> "l"
      [] c = "M" -> "m" [] c = "N" -> "n" [] c = "O" -> "o" [] c = "P" -> "p"
      [] c = "Q" -> "q" [] c = "R" -> "r" [] c = "S" -> "s" [] c = "T" -> "t"
      [] c = "U" -> "u" [] c = "V" -> "v" [] c = "W" -> "w" [] c = "X" -> "x"
      [] c = "Y" -> "y" [] c = "Z" -> "z"
      [] OTHER -> c

toLowerCaseKeepsCase(s) == s

toLowerCase(s) == [i \in 1..Len(s) |-> LowerChar(s[i])]

\* String.prototype.includes for a one-character needle
includes(s, c) == \E i \in 1..Len(s) : s[i] = c

AllIn(s, set) == \A i \in 1..Len(s) : s[i] \in set

\* First index at or after i that holds no white space (Len(s) + 1 if none)
RECURSIVE SkipWs(_, _)
SkipWs(s, i) ==
    IF i <= Len(s) /\ s[i] \in WhiteSpace THEN SkipWs(s, i + 1) ELSE i

RECURSIVE LastNonWs(_, _)
LastNonWs(s, i) ==
    IF i >= 1 /\ s[i] \in WhiteSpace THEN LastNonWs(s, i - 1) ELSE i

Between(s, a, b) == IF a > b THEN <<>> ELSE SubSeq(s, a, b)

Trim(s) == Between(s, SkipWs(s, 1), LastNonWs(s, Len(s)))

\* The digits of s read in the given radix
RECURSIVE Radix(_, _)
Radix(s, base) ==
    IF s = <<>> THEN 0
    ELSE Radix(SubSeq(s, 1, Len(s) - 1), base) * base + DigitVal(s[Len(s)])

\* Index of the first character of s at or after i that is in set (0 if none)
RECURSIVE FindIn(_, _, _)
FindIn(s, set, i) ==
    IF i > Len(s) THEN 0 ELSE IF s[i] \in set THEN i ELSE FindIn(s, set, i + 1)

(***************************************************************************)
(* Number(value): the StringToNumber conversion                            *)
(***************************************************************************)
InfinityWord == <<"I", "n", "f", "i", "n", "i", "t", "y">>

Unsigned(x) == IF x # <<>> /\ x[1] \in {"+", "-"} THEN Tail(x) ELSE x

\* [+-]? digits+ as an exponent part
IsExponent(x) == Unsigned(x) # <<>> /\ AllIn(Unsigned(x), Digits)

ExponentVal(x) ==
    IF x[1] = "-" THEN 0 - Radix(Tail(x), 10) ELSE Radix(Unsigned(x), 10)

Before(s, i) == IF i = 0 THEN s ELSE SubSeq(s, 1, i - 1)

After(s, i) == IF i = 0 THEN <<>> ELSE SubSeq(s, i + 1, Len(s))

\* An unsigned decimal literal is mantissa [e exponent]; the mantissa is
\* digits [. digits] or . digits
Mantissa(b) == Before(b, FindIn(b, {"e", "E"}, 1))

HasExponent(b) == FindIn(b, {"e", "E"}, 1) # 0

Exponent(b) == After(b, FindIn(b, {"e", "E"}, 1))

IntPart(mant) == Before(mant, FindIn(mant, {"."}, 1))

FracPart(mant) == After(mant, FindIn(mant, {"."}, 1))

IsMantissa(ip, fp) ==
    /\ AllIn(ip, Digits)
    /\ AllIn(fp, Digits)
    /\ Len(ip) + Len(fp) >= 1

IsDecimal(b) ==
    /\ IsMantissa(IntPart(Mantissa(b)), FracPart(Mantissa(b)))
    /\ (HasExponent(b) => IsExponent(Exponent(b)))

MantissaVal(sign, ip, fp, exp) == Num(sign, Radix(ip \o fp, 10), exp - Len(fp))

DecimalVal(sign, b) ==
    MantissaVal(sign, IntPart(Mantissa(b)), FracPart(Mantissa(b)),
                IF HasExponent(b) THEN ExponentVal(Exponent(b)) ELSE 0)

RadixPrefix(t, marks, digits) ==
    /\ Len(t) >= 3
    /\ t[1] = "0"
    /\ t[2] \in marks
    /\ AllIn(SubSeq(t, 3, Len(t)), digits)

\* t is the trimmed string
StringToNumber(t) ==
    IF t = <<>> THEN IntNum(0)
    ELSE IF RadixPrefix(t, {"x", "X"}, HexDigits)
      THEN Num(1, Radix(SubSeq(t, 3, Len(t)), 16), 0)
    ELSE IF RadixPrefix(t, {"o", "O"}, {"0", "1", "2", "3", "4", "5", "6", "7"})
      THEN Num(1, Radix(SubSeq(t, 3, Len(t)), 8), 0)
    ELSE IF RadixPrefix(t, {"b", "B"}, {"0", "1"})
      THEN Num(1, Radix(SubSeq(t, 3, Len(t)), 2), 0)
    ELSE IF Unsigned(t) = InfinityWord THEN Infinity(IF t[1] = "-" THEN -1 ELSE 1)
    ELSE IF IsDecimal(Unsigned(t)) THEN DecimalVal(IF t[1] = "-" THEN -1 ELSE 1, Unsigned(t))
    ELSE NaN

ToNumber(value) == StringToNumber(Trim(value))

(***************************************************************************)
(* JSON.parse(value).  A parse step returns [ok, next, val]: whether a     *)
(* JSON value starts at the given index, the index after it, and the       *)
(* value.  Arrays and objects are values of kind "object" carrying their   *)
(* source text.  String escapes are not modelled (no raw string of the     *)
(* model contains a backslash).                                            *)
(***************************************************************************)
JFail == [ok |-> FALSE, next |-> 0, val |-> Undefined]

JOk(next, val) == [ok |-> TRUE, next |-> next, val |-> val]

At(s, i) == IF i >= 1 /\ i <= Len(s) THEN s[i] ELSE "<eof>"

Matches(s, i, word) ==
    /\ i + Len(word) - 1 <= Len(s)
    /\ SubSeq(s, i, i + Len(word) - 1) = word

NumberChars == Digits \cup {"-", "+", ".", "e", "E"}

RECURSIVE RunEnd(_, _, _)
RunEnd(s, set, i) ==
    IF i <= Len(s) /\ s[i] \in set THEN RunEnd(s, set, i + 1) ELSE i

\* -? (0 | [1-9] digits) (. digits+)? ([eE] [+-]? digits+)?
IsJsonNumber(b) ==
    /\ IsDecimal(b)
    /\ IntPart(Mantissa(b)) # <<>>
    /\ (Len(IntPart(Mantissa(b))) > 1 => b[1] # "0")
    /\ (FindIn(Mantissa(b), {"."}, 1) # 0 => FracPart(Mantissa(b)) # <<>>)

\* tok is the longest run of number characters, ending before index next
JNumberToken(tok, next) ==
    IF tok # <<>> /\ IsJsonNumber(IF tok[1] = "-" THEN Tail(tok) ELSE tok)
      THEN JOk(next, DecimalVal(IF tok[1] = "-" THEN -1 ELSE 1,
                                IF tok[1] = "-" THEN Tail(tok) ELSE tok))
    ELSE JFail

JNumber(s, i) ==
    JNumberToken(SubSeq(s, i, RunEnd(s, NumberChars, i) - 1), RunEnd(s, NumberChars, i))

\* close is the index of the closing quote (0 if none)
JStringTo(s, i, close) ==
    IF At(s, i) = "\"" /\ close # 0
      THEN JOk(close + 1, Str(SubSeq(s, i + 1, close - 1)))
    ELSE JFail

JString(s, i) == JStringTo(s, i, FindIn(s, {"\""}, i + 1))

RECURSIVE JValue(_, _)
RECURSIVE JElements(_, _)
RECURSIVE JMembers(_, _)

\* v is a parsed element or member value, k the index of the next token
JMore(s, v, k, closer) ==
    IF ~v.ok THEN JFail
    ELSE IF At(s, k) = "," THEN
        IF closer = "]" THEN JElements(s, k + 1) ELSE JMembers(s, k + 1)
    ELSE IF At(s, k) = closer THEN JOk(k + 1, Undefined)
    ELSE JFail

JAfter(s, v, closer) == JMore(s, v, IF v.ok THEN SkipWs(s, v.next) ELSE 0, closer)

\* After "[" or ",": value (, value)* ]
JElements(s, i) == JAfter(s, JValue(s, i), "]")

\* key is the parsed member name, c the index of the token after it
JMember(s, key, c) ==
    JAfter(s, IF key.ok /\ At(s, c) = ":" THEN JValue(s, c + 1) ELSE JFail, "}")

JMemberKey(s, key) == JMember(s, key, IF key.ok THEN SkipWs(s, key.next) ELSE 0)

\* After "{" or ",": string : value (, string : value)* }
JMembers(s, i) == JMemberKey(s, JString(s, SkipWs(s, i)))

\* body is the parse of what follows the bracket at j
JComposite(s, j, body) ==
    IF body.ok THEN JOk(body.next, Obj(SubSeq(s, j, body.next - 1))) ELSE JFail

\* j is the index of the value's first character
JValueAt(s, j) ==
    IF At(s, j) = "[" THEN
        JComposite(s, j, IF At(s, SkipWs(s, j + 1)) = "]"
                           THEN JOk(SkipWs(s, j + 1) + 1, Undefined)
                         ELSE JElements(s, j + 1))
    ELSE IF At(s, j) = "{" THEN
        JComposite(s, j, IF At(s, SkipWs(s, j + 1)) = "}"
                           THEN JOk(SkipWs(s, j + 1) + 1, Undefined)
                         ELSE JMembers(s, j + 1))
    ELSE IF At(s, j) = "\"" THEN JString(s, j)
    ELSE IF Matches(s, j, <<"t", "r", "u", "e">>) THEN JOk(j + 4, Bool(TRUE))
    ELSE IF Matches(s, j, <<"f", "a", "l", "s", "e">>) THEN JOk(j + 5, Bool(FALSE))
    ELSE IF Matches(s, j, <<"n", "u", "l", "l">>) THEN JOk(j + 4, Null)
    ELSE IF At(s, j) \in Digits \cup {"-"} THEN JNumber(s, j)
    ELSE JFail

JValue(s, i) == JValueAt(s, SkipWs(s, i))

\* v is the parse of the first value of the text
JWhole(value, v) ==
    IF v.ok /\ SkipWs(value, v.next) = Len(value) + 1
      THEN [ok |-> TRUE, val |-> v.val]
    ELSE [ok |-> FALSE, val |-> Undefined]

\* [ok, val]: ok = FALSE is JSON.parse throwing a SyntaxError
JSONparse(value) == JWhole(value, JValue(value, 1))

(***************************************************************************)
(* parseAttr(value, type).  An absent attribute (getAttribute() = null)    *)
(* is Absent, a sequence that is no sequence of characters; a present one  *)
(* is the sequence of its characters.                                      *)
(***************************************************************************)
Absent == <<"null">>

PropTypes == {"string", "number", "boolean", "json"}

FiniteOrUndefined(n) == IF IsFinite(n) THEN n ELSE Undefined

ParsedOrRethrown(r) == IF r.ok THEN r.val ELSE Thrown

\* try { return JSON.parse(value) } catch { return undefined }
ParsedOrUndefined(r) == IF r.ok THEN r.val ELSE Undefined

parseAttr(value, type) ==
    IF value = Absent THEN Undefined
    ELSE CASE type = "string" -> Str(value)
           [] type = "number" -> FiniteOrUndefined(ToNumber(value))
           [] type = "boolean" ->
                Bool(value = <<>> \/ toLowerCase(value) = <<"t", "r", "u", "e">>)
           [] type = "json" -> ParsedOrUndefined(JSONparse(value))
           [] OTHER -> Undefined

(***************************************************************************)
(* Maps (plain JavaScript objects used as records): functions whose        *)
(* domain is the set of own keys.                                          *)
(***************************************************************************)
EmptyMap == [k \in {} |-> Undefined]

Keys(m) == DOMAIN m

Get(m, k) == IF k \in DOMAIN m THEN m[k] ELSE Undefined

Put(m, k, v) == [x \in (DOMAIN m) \cup {k} |-> IF x = k THEN v ELSE m[x]]

Delete(m, k) == [x \in (DOMAIN m) \ {k} |-> m[x]]

\* { ...a, ...b }
Spread(a, b) == [x \in (DOMAIN a) \cup (DOMAIN b) |-> IF x \in DOMAIN b THEN b[x] ELSE a[x]]

(***************************************************************************)
(* The options the factory is called with.  HelloCardOpts and CounterOpts  *)
(* are the two registrations of entry.tsx; the others exercise the         *)
(* remaining kinds and shadow policies (shadow defaults to false, events   *)
(* to {}) and a property name shared by the schema and the event map.      *)
(***************************************************************************)
ChangeEvent == <<"c", "h", "a", "n", "g", "e">>

HelloCardOpts ==
    [tagName |-> <<"x", "-", "h", "e", "l", "l", "o", "-", "c", "a", "r", "d">>,
     Component |-> "HelloCard",
     props |-> [name |-> "string"],
     shadow |-> "open",
     events |-> EmptyMap]

CounterOpts ==
    [tagName |-> <<"x", "-", "c", "o", "u", "n", "t", "e", "r">>,
     Component |-> "Counter",
     props |-> [start |-> "number", step |-> "number"],
     shadow |-> "open",
     events |-> [onChange |-> ChangeEvent]]

ToggleOpts ==
    [tagName |-> <<"x", "-", "t", "o", "g", "g", "l", "e">>,
     Component |-> "Toggle",
     props |-> [on |-> "boolean"],
     shadow |-> "false",
     events |-> [onChange |-> ChangeEvent]]

ChartOpts ==
    [tagName |-> <<"x", "-", "c", "h", "a", "r", "t">>,
     Component |-> "Chart",
     props |-> [data |-> "json"],
     shadow |-> "closed",
     events |-> EmptyMap]

\* A schema property that is also named in the event map
ClashOpts ==
    [tagName |-> <<"x", "-", "c", "l", "a", "s", "h">>,
     Component |-> "Clash",
     props |-> [onChange |-> "string"],
     shadow |-> "open",
     events |-> [onChange |-> ChangeEvent]]

Options == {HelloCardOpts, CounterOpts, ToggleOpts, ChartOpts, ClashOpts}

\* An attribute of the element that no schema names
OtherAttr == "title"

\* Names every object literal inherits from Object.prototype: propSchema[name]
\* is a function (truthy) for them
ObjectPrototypeNames == {"toString"}

InheritedAttr == "toString"

\* Raw attribute values the page sets, values it assigns to properties, and
\* payloads the wrapped component passes to a callback
AttrInputs == {<<>>, <<"5">>, <<"a">>}

PropInputs == {IntNum(100), Str(<<"q">>)}

Payloads == {IntNum(15), Undefined}

\* Most render sessions one instance starts in a behaviour
MaxRoots == 2

(***************************************************************************)
(* State                                                                   *)
(***************************************************************************)
VARIABLES
    registry,     \* customElements: tag name -> the class defined under it
    classes,      \* number of ReactCustomElement classes created so far
    lastCall,     \* the latest factory call: its tag, whether it threw, and
                  \* the registry operations it made
    cls,          \* the options the instance's class closes over
    attached,     \* whether the instance is connected to the document
    attrs,        \* the instance's attributes: name -> raw value or Absent
    ownProps,     \* the instance's own JS property of each schema name
    _root,        \* this._root: 0 (null) or the render session's id
    _mount,       \* this._mount: 0 (null) or the container's id
    _propValues,  \* this._propValues
    roots,        \* number of createRoot calls so far (session ids 1..roots)
    containers,   \* number of container <div>s created so far
    shadowRoots,  \* the modes of the attachShadow calls so far
    mountParent,  \* where the container was appended: "none", "shadow", "host"
    rendered,     \* the UI tree of the live session: [live, props]
    calls,        \* the UI-runtime calls of the latest reaction, in order
    dispatched,   \* the events dispatched on the host node by the latest reaction
    threw,        \* whether the latest reaction ended with an exception of the
                  \* UI runtime, which no reaction catches
    coercion      \* a parseAttr call: its arguments and, once made, its result

factoryVars == <<registry, classes, lastCall>>

instanceVars ==
    <<cls, attached, attrs, ownProps, _root, _mount, _propValues, roots,
      containers, shadowRoots, mountParent, rendered, calls, dispatched, threw>>

vars == <<factoryVars, instanceVars, coercion>>

propSchema == cls.props

events == cls.events

shadow == cls.shadow

\* static get observedAttributes()
observedAttributes == Keys(propSchema)

AttrNames == observedAttributes \cup {OtherAttr, InheritedAttr}

\* Faulty variant: a name outside the schema is treated as a text property
SchemaTypeOfAnyName(name) ==
    IF name \in Keys(propSchema) THEN propSchema[name] ELSE "string"

\* propSchema[name]: the declared kind, an inherited function, or "undefined"
\* (falsy) for other names
SchemaType(name) ==
    IF name \in Keys(propSchema) THEN propSchema[name]
    ELSE IF name \in ObjectPrototypeNames THEN "function"
    ELSE "undefined"

\* this.getAttribute(name)
getAttribute(at, name) == at[name]

NoTree == [live |-> FALSE, props |-> EmptyMap]

NoProp == [desc |-> "none", value |-> Undefined]

DataProp(v) == [desc |-> "data", value |-> v]

AccessorProp == [desc |-> "accessor", value |-> Undefined]

Call(op, root) == [op |-> op, root |-> root]

(***************************************************************************)
(* render()                                                                *)
(***************************************************************************)
\* The bridge callback of one event-map entry: a function closing over the
\* DOM event name
Bridge(domEventName) == [kind |-> "function", n |-> 0, e |-> 0, s |-> domEventName]

eventProps == [reactPropName \in Keys(events) |-> Bridge(events[reactPropName])]

allPropsValuesLast(pv) == Spread(eventProps, pv)

\* const allProps = { ...this._propValues, ...eventProps }
allProps(pv) == Spread(pv, eventProps)

\* The tree after render() runs with this._root = root and this._propValues = pv
renderTree(root, pv, tree) ==
    IF root = 0 THEN tree ELSE [live |-> TRUE, props |-> allProps(pv)]

renderCallsWithoutSession(root) == <<Call("render", root)>>

\* The UI-runtime calls render() makes
renderCalls(root) == IF root = 0 THEN <<>> ELSE <<Call("render", root)>>

\* Faulty variant: the event is not composed, so it stops at the shadow root
CustomEventNotComposed(domEventName, detail) ==
    [type |-> domEventName, detail |-> detail, bubbles |-> TRUE, composed |-> FALSE]

\* new CustomEvent(domEventName, { detail, bubbles: true, composed: true })
CustomEvent(domEventName, detail) ==
    [type |-> domEventName, detail |-> detail, bubbles |-> TRUE, composed |-> TRUE]

(***************************************************************************)
(* connectedCallback()                                                     *)
(***************************************************************************)
\* Faulty variant: a container is created on every attach
needsMountAlways(mount) == TRUE

\* if (!this._mount)
needsMount(mount) == mount = 0

\* if (!this._root)
needsRoot(root) == root = 0

\* The accessor loop: a key that is already an own property is skipped
defineAccessors(own) ==
    [key \in Keys(propSchema) |->
        IF own[key].desc # "none" THEN own[key] ELSE AccessorProp]

\* Faulty variant: the parse result is stored whether or not it is a value
seedFromAttributesUnguarded(pv, at) ==
    [key \in Keys(pv) \cup Keys(propSchema) |->
        IF key \in Keys(propSchema)
          THEN parseAttr(getAttribute(at, key), propSchema[key]) ELSE pv[key]]

\* The seeding loop: every attribute that parses to a value is stored
seedFromAttributes(pv, at) ==
    LET parsed(key) == parseAttr(getAttribute(at, key), propSchema[key])
        seeded == {key \in Keys(propSchema) : parsed(key) # Undefined}
    IN  [key \in Keys(pv) \cup seeded |->
            IF key \in seeded THEN parsed(key) ELSE pv[key]]

connectedCallback ==
    /\ ~attached
    /\ roots < MaxRoots
    /\ attached' = TRUE
    /\ LET create == needsMount(_mount)
           start == needsRoot(_root)
           root == IF start THEN roots + 1 ELSE _root
           pv == seedFromAttributes(_propValues, attrs)
       IN  /\ _mount' = IF create THEN containers + 1 ELSE _mount
           /\ containers' = IF create THEN containers + 1 ELSE containers
           /\ shadowRoots' = IF create /\ shadow # "false"
                               THEN Append(shadowRoots, shadow) ELSE shadowRoots
           /\ mountParent' = IF ~create THEN mountParent
                             ELSE IF shadow # "false" THEN "shadow" ELSE "host"
           /\ _root' = root
           /\ roots' = IF start THEN roots + 1 ELSE roots
           /\ ownProps' = defineAccessors(ownProps)
           /\ _propValues' = pv
           /\ rendered' = renderTree(root, pv, rendered)
           /\ calls' = (IF start THEN <<Call("createRoot", root)>> ELSE <<>>)
                        \o renderCalls(root)
    /\ dispatched' = <<>>
    /\ threw' = FALSE
    /\ UNCHANGED <<coercion, factoryVars, cls, attrs>>

(***************************************************************************)
(* attributeChangedCallback(name, _oldValue, _newValue), delivered when    *)
(* the attribute is set to newValue (or removed: newValue = Absent)        *)
(***************************************************************************)
\* Faulty variant: a value that does not parse leaves the stored value alone
afterAttributeChangeKeepsStale(pv, name, at) ==
    IF SchemaType(name) = "undefined" THEN pv
    ELSE IF parseAttr(getAttribute(at, name), SchemaType(name)) = Undefined THEN pv
    ELSE Put(pv, name, parseAttr(getAttribute(at, name), SchemaType(name)))

\* this._propValues after the callback
afterAttributeChange(pv, name, at) ==
    LET type == SchemaType(name)
        parsed == parseAttr(getAttribute(at, name), type)
    IN  IF type = "undefined" THEN pv
        ELSE IF parsed = Undefined THEN Delete(pv, name)
        ELSE Put(pv, name, parsed)

attributeChangedCallback(name, newValue) ==
    /\ ~(attrs[name] = Absent /\ newValue = Absent)
    /\ attrs' = [attrs EXCEPT ![name] = newValue]
    /\ _propValues' = afterAttributeChange(_propValues, name, attrs')
    /\ IF SchemaType(name) = "undefined"
         THEN /\ rendered' = rendered
              /\ calls' = <<>>
         ELSE /\ rendered' = renderTree(_root, _propValues', rendered)
              /\ calls' = renderCalls(_root)
    /\ dispatched' = <<>>
    /\ threw' = FALSE
    /\ UNCHANGED <<coercion, factoryVars, cls, attached, ownProps, _root, _mount, roots,
                   containers, shadowRoots, mountParent>>

(***************************************************************************)
(* disconnectedCallback()                                                  *)
(***************************************************************************)
\* Faulty variant: the handle is not cleared
rootKeptAfterDisconnect(root) == root

\* this._root after the callback
rootAfterDisconnect(root) == 0

disconnectedCallback ==
    /\ attached
    /\ attached' = FALSE
    /\ calls' = IF _root # 0 THEN <<Call("unmount", _root)>> ELSE <<>>
    /\ rendered' = IF _root # 0 THEN NoTree ELSE rendered
    /\ _root' = rootAfterDisconnect(_root)
    /\ dispatched' = <<>>
    /\ threw' = FALSE
    /\ UNCHANGED <<coercion, factoryVars, cls, attrs, ownProps, _mount, _propValues, roots,
                   containers, shadowRoots, mountParent>>

(***************************************************************************)
(* instance[key] = v and instance[key], for a schema key                   *)
(***************************************************************************)
\* The set accessor: this._propValues[key] = v
accessorSet(pv, key, v) == Put(pv, key, v)

PropSet(key, v) ==
    /\ IF ownProps[key].desc = "accessor"
         THEN /\ _propValues' = accessorSet(_propValues, key, v)
              /\ rendered' = renderTree(_root, _propValues', rendered)
              /\ calls' = renderCalls(_root)
              /\ ownProps' = ownProps
         ELSE \* no accessor yet: an ordinary data property is created or written
              /\ ownProps' = [ownProps EXCEPT ![key] = DataProp(v)]
              /\ calls' = <<>>
              /\ UNCHANGED <<_propValues, rendered>>
    /\ dispatched' = <<>>
    /\ threw' = FALSE
    /\ UNCHANGED <<coercion, factoryVars, cls, attached, attrs, _root, _mount, roots,
                   containers, shadowRoots, mountParent>>

\* The get accessor returns this._propValues[key]; a data property its value
PropGet(key) ==
    IF ownProps[key].desc = "accessor" THEN Get(_propValues, key)
    ELSE ownProps[key].value

(***************************************************************************)
(* The mounted component invokes the callback it received under            *)
(* reactPropName with a payload (Counter.inc calls onChange(next))         *)
(***************************************************************************)
InvokeCallback(reactPropName, detail) ==
    /\ rendered.live
    /\ reactPropName \in Keys(rendered.props)
    /\ rendered.props[reactPropName].kind = "function"
    /\ dispatched' = <<CustomEvent(rendered.props[reactPropName].s, detail)>>
    /\ calls' = <<>>
    /\ threw' = FALSE
    /\ UNCHANGED <<coercion, factoryVars, cls, attached, attrs, ownProps, _root, _mount,
                   _propValues, roots, containers, shadowRoots, mountParent, rendered>>

(***************************************************************************)
(* defineReactCustomElement(opts)                                          *)
(***************************************************************************)
\* Tag names the factory is called with: two of entry.tsx and two without a
\* hyphen
TagNames ==
    {HelloCardOpts.tagName, CounterOpts.tagName, <<"x", "c", "a", "r", "d">>, <<>>}

\* Most classes the factory creates in a behaviour
MaxClasses == 3

\* Faulty variant: the tag name is not checked
isConfigErrorNever(tagName) == FALSE

\* if (!tagName.includes("-")) throw new Error(...)
isConfigError(tagName) == ~includes(tagName, "-")

\* Faulty variant: the class is defined without looking the tag up
shouldDefineAlways(reg, tagName) == TRUE

\* if (!customElements.get(tagName)) customElements.define(tagName, ...)
shouldDefine(reg, tagName) == tagName \notin Keys(reg)

\* customElements.define throws a NotSupportedError for a name already defined
defineThrows(reg, tagName) == tagName \in Keys(reg)

defineReactCustomElement(opts) ==
    /\ classes < MaxClasses
    /\ IF isConfigError(opts.tagName)
         THEN /\ lastCall' = [tagName |-> opts.tagName, threw |-> TRUE, ops |-> <<>>]
              /\ UNCHANGED <<registry, classes>>
         ELSE LET class == [id |-> classes + 1, opts |-> opts]
                  define == shouldDefine(registry, opts.tagName)
                  throws == define /\ defineThrows(registry, opts.tagName)
              IN  /\ classes' = classes + 1
                  /\ registry' = IF define /\ ~throws
                                   THEN Put(registry, opts.tagName, class)
                                 ELSE registry
                  /\ lastCall' = [tagName |-> opts.tagName, threw |-> throws,
                                  ops |-> IF define THEN <<"get", "define">>
                                          ELSE <<"get">>]
    /\ UNCHANGED <<coercion, instanceVars>>

(***************************************************************************)
(* Specifications                                                          *)
(***************************************************************************)
\* No parseAttr call is under way
NoCoercion ==
    [value |-> Absent, type |-> "string", returned |-> FALSE, result |-> Undefined]

\* A newly constructed instance of the class that closes over opts
NewInstance(opts) ==
    /\ cls = opts
    /\ attached = FALSE
    /\ attrs = [name \in Keys(opts.props) \cup {OtherAttr, InheritedAttr} |-> Absent]
    /\ ownProps = [key \in Keys(opts.props) |-> NoProp]
    /\ _root = 0
    /\ _mount = 0
    /\ _propValues = EmptyMap
    /\ roots = 0
    /\ containers = 0
    /\ shadowRoots = <<>>
    /\ mountParent = "none"
    /\ rendered = NoTree
    /\ calls = <<>>
    /\ dispatched = <<>>
    /\ threw = FALSE

\* One instance of a class the factory has registered, not yet attached
Init ==
    \E opts \in Options :
        /\ registry = Put(EmptyMap, opts.tagName, [id |-> 1, opts |-> opts])
        /\ classes = 1
        /\ lastCall = [tagName |-> opts.tagName, threw |-> FALSE,
                       ops |-> <<"get", "define">>]
        /\ NewInstance(opts)
        /\ coercion = NoCoercion

\* The raw values an attribute is set to (Absent: it is removed)
AttrInputsOf(name) ==
    IF name \in observedAttributes THEN AttrInputs \cup {Absent} ELSE {<<"5">>, Absent}

Next ==
    \/ connectedCallback
    \/ disconnectedCallback
    \/ \E name \in AttrNames :
          \E newValue \in AttrInputsOf(name) : attributeChangedCallback(name, newValue)
    \/ \E key \in Keys(propSchema), v \in PropInputs : PropSet(key, v)
    \/ \E reactPropName \in Keys(events), detail \in Payloads :
          InvokeCallback(reactPropName, detail)

Spec == Init /\ [][Next]_vars

\* The page's scripts calling the factory, on an empty registry
InitFactory ==
    /\ registry = EmptyMap
    /\ classes = 0
    /\ lastCall = [tagName |-> <<>>, threw |-> FALSE, ops |-> <<>>]
    /\ NewInstance(HelloCardOpts)
    /\ coercion = NoCoercion

NextFactory ==
    \E tagName \in TagNames, base \in Options :
        defineReactCustomElement([base EXCEPT !.tagName = tagName])

SpecFactory == InitFactory /\ [][NextFactory]_vars

(***************************************************************************)
(* The reactions when a call of the UI runtime throws.  No reaction has a  *)
(* try/catch around createRoot or root.render, so the reaction ends at the *)
(* throwing call with what it had done until then.                         *)
(***************************************************************************)
RuntimeCalls == {"createRoot", "render"}

\* connectedCallback ending at a throwing createRoot (line 73) or at the
\* throwing root.render of this.render() (line 95)
connectedCallbackThrows(at) ==
    /\ ~attached
    /\ roots < MaxRoots
    /\ at = "createRoot" => needsRoot(_root)
    /\ attached' = TRUE
    /\ LET create == needsMount(_mount)
           start == needsRoot(_root)
           root == IF start THEN roots + 1 ELSE _root
           pv == seedFromAttributes(_propValues, attrs)
       IN  /\ _mount' = IF create THEN containers + 1 ELSE _mount
           /\ containers' = IF create THEN containers + 1 ELSE containers
           /\ shadowRoots' = IF create /\ shadow # "false"
                               THEN Append(shadowRoots, shadow) ELSE shadowRoots
           /\ mountParent' = IF ~create THEN mountParent
                             ELSE IF shadow # "false" THEN "shadow" ELSE "host"
           /\ IF at = "createRoot"
                THEN /\ calls' = <<Call("createRoot", 0)>>
                     /\ UNCHANGED <<_root, roots, ownProps, _propValues>>
                ELSE /\ _root' = root
                     /\ roots' = IF start THEN roots + 1 ELSE roots
                     /\ ownProps' = defineAccessors(ownProps)
                     /\ _propValues' = pv
                     /\ calls' = (IF start THEN <<Call("createRoot", root)>> ELSE <<>>)
                                  \o renderCalls(root)
    /\ dispatched' = <<>>
    /\ threw' = TRUE
    /\ UNCHANGED <<coercion, factoryVars, cls, attrs, rendered>>

\* attributeChangedCallback ending at the throwing root.render
attributeChangedCallbackThrows(name, newValue) ==
    /\ ~(attrs[name] = Absent /\ newValue = Absent)
    /\ SchemaType(name) # "undefined"
    /\ _root # 0
    /\ attrs' = [attrs EXCEPT ![name] = newValue]
    /\ _propValues' = afterAttributeChange(_propValues, name, attrs')
    /\ calls' = renderCalls(_root)
    /\ dispatched' = <<>>
    /\ threw' = TRUE
    /\ UNCHANGED <<coercion, factoryVars, cls, attached, ownProps, _root, _mount, roots,
                   containers, shadowRoots, mountParent, rendered>>

\* The set accessor ending at the throwing root.render
PropSetThrows(key, v) ==
    /\ ownProps[key].desc = "accessor"
    /\ _root # 0
    /\ _propValues' = accessorSet(_propValues, key, v)
    /\ calls' = renderCalls(_root)
    /\ dispatched' = <<>>
    /\ threw' = TRUE
    /\ UNCHANGED <<coercion, factoryVars, cls, attached, attrs, ownProps, _root, _mount,
                   roots, containers, shadowRoots, mountParent, rendered>>

NextFailing ==
    \/ Next
    \/ \E at \in RuntimeCalls : connectedCallbackThrows(at)
    \/ \E name \in AttrNames :
          \E newValue \in AttrInputsOf(name) : attributeChangedCallbackThrows(name, newValue)
    \/ \E key \in Keys(propSchema), v \in PropInputs : PropSetThrows(key, v)

\* One instance of the boolean-property element, not yet attached
InitFailing ==
    /\ registry = Put(EmptyMap, ToggleOpts.tagName, [id |-> 1, opts |-> ToggleOpts])
    /\ classes = 1
    /\ lastCall = [tagName |-> ToggleOpts.tagName, threw |-> FALSE,
                   ops |-> <<"get", "define">>]
    /\ NewInstance(ToggleOpts)
    /\ coercion = NoCoercion

SpecFailing == InitFailing /\ [][NextFailing]_vars

\* The raw attribute strings handed to parseAttr, per declared kind
MaxLen == 4

Strings(alphabet) == UNION {[1..len -> alphabet] : len \in 0..MaxLen}

InputNumberChars == {"0", "1", "e", "-", ".", "x", " "}

BooleanChars == {"t", "T", "r", "R", "u", "e"}

JsonChars == {"[", "]", "{", "}", "1", ",", "\""}

\* Longer strings of interest
Examples ==
    {<<"I", "n", "f", "i", "n", "i", "t", "y">>, <<"1", "e", "9", "9", "9">>,
     <<"f", "a", "l", "s", "e">>, <<"y", "e", "s">>, <<"1">>,
     <<"{", "\"", "a", "\"", ":", "1", "}">>, <<"{", "a", ":", "1", "}">>}

RawInputs(type) ==
    Examples \cup CASE type = "number" -> Strings(InputNumberChars)
                    [] type = "json" -> Strings(JsonChars)
                    [] OTHER -> Strings(BooleanChars)

\* A call of parseAttr(value, type) and its return
parseAttrCall ==
    /\ ~coercion.returned
    /\ coercion' = [coercion EXCEPT !.returned = TRUE,
                                     !.result = parseAttr(coercion.value, coercion.type)]
    /\ UNCHANGED <<factoryVars, instanceVars>>

InitCoerce ==
    /\ registry = EmptyMap
    /\ classes = 0
    /\ lastCall = [tagName |-> <<>>, threw |-> FALSE, ops |-> <<>>]
    /\ NewInstance(HelloCardOpts)
    /\ \E type \in PropTypes :
          \E value \in RawInputs(type) \cup {Absent} :
              coercion = [value |-> value, type |-> type, returned |-> FALSE,
                          result |-> Undefined]

NextCoerce == parseAttrCall

SpecCoerce == InitCoerce /\ [][NextCoerce]_vars

(***************************************************************************)
(* Properties                                                              *)
(***************************************************************************)

\* C1: a detach followed by a re-attach leaves the value map as it was just
\* before the detach: the detach keeps this._propValues, and so does the
\* attach that directly follows it (the instance's latest reaction is the
\* unmount of the detach).
C1_ReattachKeepsValueMap ==
    [][/\ (attached /\ ~attached') => _propValues' = _propValues
       /\ (~attached /\ attached' /\ calls = <<Call("unmount", roots)>>) =>
              _propValues' = _propValues]_vars

\* C2: once the instance has been attached, every schema property is a
\* get/set accessor backed by the value map, so reading it returns the
\* value-map entry, whatever preceded the attach.
C2_AccessorsShareStore ==
    _mount # 0 =>
        \A key \in Keys(propSchema) :
            /\ ownProps[key].desc = "accessor"
            /\ PropGet(key) = Get(_propValues, key)

\* C3: on an attached instance, instance.prop = v stores v unchanged under
\* prop in the value map and makes exactly one render-session update call.
C3_AssignmentStoresAndRenders ==
    [][\A key \in Keys(propSchema), v \in PropInputs :
          (attached /\ PropSet(key, v)) =>
              /\ key \in Keys(_propValues')
              /\ _propValues'[key] = v
              /\ calls' = <<Call("render", _root)>>]_vars

\* C4: however often the factory runs for a tag, the class registered first
\* stays registered: no call replaces or removes a registered class, and a
\* call for a registered tag throws nothing and defines nothing.
C4_RegistrationIdempotent ==
    [][/\ \A tag \in Keys(registry) :
              tag \in Keys(registry') /\ registry'[tag] = registry[tag]
       /\ lastCall'.tagName \in Keys(registry) =>
              ~lastCall'.threw /\ lastCall'.ops = <<"get">>]_vars

C4_Witness ==
    /\ lastCall.tagName \in Keys(registry)
    /\ lastCall.ops = <<"get">>
    /\ registry[lastCall.tagName].id < classes

\* C5: a call whose tag name has no hyphen throws before any registry
\* access and leaves the registry as it was; a later call with a valid,
\* unregistered tag still registers its class.
C5_ConfigErrorIsLocal ==
    [][/\ ~includes(lastCall'.tagName, "-") =>
              /\ lastCall'.threw
              /\ lastCall'.ops = <<>>
              /\ registry' = registry
              /\ classes' = classes
       /\ (includes(lastCall'.tagName, "-") /\ lastCall'.tagName \notin Keys(registry)) =>
              /\ ~lastCall'.threw
              /\ Keys(registry') = Keys(registry) \cup {lastCall'.tagName}
              /\ registry'[lastCall'.tagName].id = classes']_vars

C5_Witness ==
    /\ lastCall.threw
    /\ lastCall.ops = <<>>
    /\ Keys(registry) # {}

\* C6: an attribute-change notification for a schema property removes the
\* property's key from the value map when the attribute is now absent or
\* does not coerce, whatever stored it, so the render passes no value for it;
\* otherwise the map holds the coerced new value.
C6_AttributeChangeUpdatesMap ==
    [][\A name \in Keys(propSchema), newValue \in AttrInputs \cup {Absent} :
          attributeChangedCallback(name, newValue) =>
              /\ IF parseAttr(newValue, propSchema[name]) = Undefined
                   THEN name \notin Keys(_propValues')
                   ELSE /\ name \in Keys(_propValues')
                        /\ _propValues'[name] = parseAttr(newValue, propSchema[name])
              /\ rendered'.live =>
                    \A key \in Keys(propSchema) \ Keys(events) :
                        /\ key \in Keys(rendered'.props) <=> key \in Keys(_propValues')
                        /\ key \in Keys(_propValues') =>
                              rendered'.props[key] = _propValues'[key]]_vars

C6_Witness ==
    /\ cls = CounterOpts
    /\ ownProps["start"].desc = "accessor"
    /\ attrs["start"] = <<"a">>
    /\ "start" \notin Keys(_propValues)
    /\ "step" \in Keys(_propValues)
    /\ rendered.live
    /\ "start" \notin Keys(rendered.props)

\* C7: every property set handed to the render session holds, for each
\* (callback property -> event name) pair, a callback under that property
\* name; invoking it with a payload dispatches exactly one event on the host
\* node, of the mapped name, bubbling and composed, with the payload as detail.
C7_EventBridge ==
    [][/\ rendered'.live =>
              \A reactPropName \in Keys(events) :
                  /\ reactPropName \in Keys(rendered'.props)
                  /\ rendered'.props[reactPropName].kind = "function"
       /\ \A reactPropName \in Keys(events), detail \in Payloads :
              InvokeCallback(reactPropName, detail) =>
                  dispatched' = <<[type |-> events[reactPropName], detail |-> detail,
                                   bubbles |-> TRUE, composed |-> TRUE]>>]_vars

C7_Witness ==
    /\ Len(dispatched) = 1
    /\ dispatched[1].type = ChangeEvent
    /\ dispatched[1].detail = IntNum(15)

\* C8: the render-session handle is non-null only while the instance is
\* attached to the document.
C8_RootOnlyWhileAttached == _root # 0 => attached

C8_Witness ==
    /\ ~attached
    /\ _root = 0
    /\ calls = <<Call("unmount", roots)>>

\* C9: every key of the value map is a property name of the schema.
C9_ValueMapKeysInSchema == Keys(_propValues) \subseteq Keys(propSchema)

C9_Witness ==
    /\ attrs[OtherAttr] # Absent
    /\ attached
    /\ Keys(_propValues) = Keys(propSchema)

\* C10: the mount container (and, under a shadow policy, the shadow root) is
\* created exactly once, on the first attach, and every later attach reuses it.
C10_MountCreatedOnce ==
    /\ containers = (IF roots = 0 THEN 0 ELSE 1)
    /\ _mount = containers
    /\ Len(shadowRoots) = (IF shadow # "false" THEN containers ELSE 0)
    /\ \A i \in 1..Len(shadowRoots) : shadowRoots[i] = shadow
    /\ mountParent = (IF containers = 0 THEN "none"
                      ELSE IF shadow # "false" THEN "shadow" ELSE "host")

C10_Witness ==
    /\ attached
    /\ roots >= 2
    /\ _mount = 1

\* C11: for the number kind, a decimal numeral coerces to the number it
\* denotes, a string that is no decimal numeral (the empty string, a
\* whitespace-only string and a non-decimal notation among them) coerces to
\* "no value", and a result that is not finite is "no value".
C11_DecimalNumeral(s) == s # <<>> /\ IsDecimal(Unsigned(s))

C11_Denoted(s) == DecimalVal(IF s[1] = "-" THEN -1 ELSE 1, Unsigned(s))

C11_NumberCoercion ==
    (coercion.returned /\ coercion.type = "number" /\ coercion.value # Absent) =>
        IF C11_DecimalNumeral(coercion.value)
        THEN coercion.result = (IF IsFinite(C11_Denoted(coercion.value))
                                THEN C11_Denoted(coercion.value) ELSE Undefined)
        ELSE coercion.result = Undefined

\* C12: coercion is total and throws nothing: an absent attribute coerces to
\* "no value" for every kind, and every raw string coerces to a value of its
\* kind or to "no value"; a structured-data string with invalid syntax
\* coerces to "no value".
C12_KindsOf(type) ==
    CASE type = "string" -> {"string"}
      [] type = "number" -> {"number"}
      [] type = "boolean" -> {"boolean"}
      [] type = "json" -> {"null", "boolean", "number", "string", "object"}

C12_InvalidJson == {<<>>, <<"[", "1">>, <<"{", "a", ":", "1", "}">>, <<"1", ",">>}

C12_CoercionTotal ==
    coercion.returned =>
        /\ coercion.result # Thrown
        /\ coercion.value = Absent => coercion.result = Undefined
        /\ coercion.result.kind \in C12_KindsOf(coercion.type) \cup {"undefined"}
        /\ (coercion.type = "json" /\ coercion.value \in C12_InvalidJson) =>
               coercion.result = Undefined

C12_Witness ==
    /\ coercion.returned
    /\ coercion.type = "json"
    /\ coercion.value = <<"[", "1">>
    /\ coercion.result = Undefined

\* C13: for the boolean kind a present attribute coerces to a boolean, true
\* exactly when the raw string is empty or spells "true" in any letter case;
\* only an absent attribute coerces to "no value".
C13_TrueWord(s) ==
    \/ s = <<>>
    \/ /\ Len(s) = 4
       /\ s[1] \in {"t", "T"}
       /\ s[2] \in {"r", "R"}
       /\ s[3] \in {"u", "U"}
       /\ s[4] \in {"e", "E"}

C13_BooleanCoercion ==
    (coercion.returned /\ coercion.type = "boolean") =>
        IF coercion.value = Absent THEN coercion.result = Undefined
        ELSE coercion.result = Bool(C13_TrueWord(coercion.value))

C13_Witness ==
    /\ coercion.returned
    /\ coercion.type = "boolean"
    /\ coercion.value = <<"T", "R", "u", "e">>
    /\ coercion.result = Bool(TRUE)

\* C14: an attribute-change notification for a name that is not a schema
\* property changes neither the value map, nor the render-session handle, nor
\* the mount container, and makes no render-session update call.
C14_NonSchemaAttributeIsNoOp ==
    [][(\E name \in AttrNames \ Keys(propSchema) : attrs'[name] # attrs[name]) =>
          /\ _propValues' = _propValues
          /\ _root' = _root
          /\ _mount' = _mount
          /\ \A i \in 1..Len(calls') : calls'[i].op # "render"]_vars

\* C15: while the instance has no render session, an attribute change and a
\* property assignment update the value map and call nothing of the UI
\* runtime, and the next attach renders the value map accumulated so far.
C15_UpdatesWithoutSession ==
    [][/\ \A name \in Keys(propSchema), newValue \in AttrInputs \cup {Absent} :
            (_root = 0 /\ attributeChangedCallback(name, newValue)) =>
                /\ calls' = <<>>
                /\ Get(_propValues', name) = parseAttr(newValue, propSchema[name])
       /\ \A key \in Keys(propSchema), v \in PropInputs :
            (_root = 0 /\ PropSet(key, v)) =>
                /\ calls' = <<>>
                /\ Get(_propValues', key) = v
       /\ connectedCallback => rendered'.props = allProps(_propValues)]_vars

\* C16: after every reaction of an attached instance the property set last
\* handed to the render session is the value map combined with the bridge
\* callbacks, and every attach, schema attribute change and property
\* assignment on an attached instance makes exactly one update call, carrying
\* the value map as the reaction leaves it.
C16_Updates(cs) == {i \in 1..Len(cs) : cs[i].op = "render"}

C16_RenderAfterEveryMutation ==
    [][/\ attached' =>
            /\ rendered'.live
            /\ rendered'.props = allProps(_propValues')
       /\ connectedCallback => Cardinality(C16_Updates(calls')) = 1
       /\ \A name \in Keys(propSchema), newValue \in AttrInputs \cup {Absent} :
            (attached /\ attributeChangedCallback(name, newValue)) =>
                Cardinality(C16_Updates(calls')) = 1
       /\ \A key \in Keys(propSchema), v \in PropInputs :
            (attached /\ PropSet(key, v)) =>
                Cardinality(C16_Updates(calls')) = 1]_vars

\* C17: render sessions are started and torn down in strict alternation: an
\* attach that finds no session makes one createRoot call, with the
\* container in place, and holds the new session; a detach unmounts the
\* live session once and clears the handle, and calls nothing when there is
\* none; updates and unmounts go to the live session only, never to a
\* torn-down one; a session is created only when none is live and dropped
\* only by its unmount.
C17_CallsOf(cs, op) == {i \in 1..Len(cs) : cs[i].op = op}

C17_SessionProtocol ==
    [][/\ (~attached /\ attached' /\ _root = 0) =>
            /\ Cardinality(C17_CallsOf(calls', "createRoot")) = 1
            /\ calls'[1].op = "createRoot"
            /\ _mount' # 0
            /\ ~(threw' /\ Len(calls') = 1) =>
                  /\ _root' = roots + 1
                  /\ roots' = roots + 1
                  /\ calls'[1].root = _root'
       /\ (attached /\ ~attached') =>
            /\ calls' = IF _root # 0 THEN <<Call("unmount", _root)>> ELSE <<>>
            /\ _root' = 0
       /\ \A i \in 1..Len(calls') :
            /\ calls'[i].op = "render" =>
                  calls'[i].root # 0 /\ calls'[i].root = _root'
            /\ calls'[i].op = "unmount" =>
                  calls'[i].root # 0 /\ calls'[i].root = _root
            /\ calls'[i].op = "createRoot" => _root = 0
       /\ (_root # 0 /\ _root' # _root) => calls' = <<Call("unmount", _root)>>
       /\ _root' \in {0, _root, roots + 1}]_vars

C17_Witness ==
    /\ ~attached
    /\ roots = 2
    /\ _root = 0
    /\ calls = <<Call("unmount", 2)>>

C19_RenderingSurvivesFailure ==
    [][(threw /\ attached) =>
          /\ \A name \in Keys(propSchema), newValue \in AttrInputs \cup {Absent} :
                attributeChangedCallback(name, newValue) =>
                    /\ _root # 0
                    /\ calls' = <<Call("render", _root)>>
                    /\ rendered'.props = allProps(_propValues')
          /\ \A key \in Keys(propSchema), v \in PropInputs :
                PropSet(key, v) =>
                    /\ _root # 0
                    /\ calls' = <<Call("render", _root)>>
                    /\ rendered'.props = allProps(_propValues')]_vars

\* C20: in the property set handed to the render session the bridge
\* callbacks win: a name that is both a schema property and an event-map
\* callback name carries the bridge callback, whatever the value map holds
\* under it, and every value-map entry of another name is passed unchanged.
C20_BridgeCallbacksWin ==
    [][rendered'.live =>
          /\ \A reactPropName \in Keys(events) :
                /\ reactPropName \in Keys(rendered'.props)
                /\ rendered'.props[reactPropName] =
                       [kind |-> "function", n |-> 0, e |-> 0, s |-> events[reactPropName]]
          /\ \A key \in Keys(_propValues') \ Keys(events) :
                /\ key \in Keys(rendered'.props)
                /\ rendered'.props[key] = _propValues'[key]]_vars

C20_Witness ==
    /\ cls = ClashOpts
    /\ rendered.live
    /\ Get(_propValues, "onChange") = Str(<<"5">>)
    /\ rendered.props["onChange"].kind = "function"
    /\ calls = <<Call("render", _root)>>

====
